---- MODULE Spec2Model ----
(***************************************************************************)
(* A model of the ulid package: the 16-byte identifier, its Crockford      *)
(* Base32 text codec, its accessors and mutators, the constructor New and  *)
(* the monotonic entropy reader.                                           *)
(*                                                                         *)
(* Data representation.  A byte is a number in 0..255.  A byte slice or    *)
(* array is a function whose domain is 0..n-1, so that id[0], v[25] read   *)
(* as in the source.  TLC's integers are 32 bits wide, so a uint64 is kept *)
(* as its eight bytes, most significant first (the layout                  *)
(* binary.BigEndian gives it); the arithmetic the source does on uint64    *)
(* values (++, <, >, <<, >>, byte()) is defined on that layout, with the   *)
(* wrap-around at 2^64.                                                    *)
(***************************************************************************)
EXTENDS Integers, Sequences, FiniteSets, TLC

(***************************************************************************)
(* Program constants.                                                      *)
(***************************************************************************)
EncodedSize == 26

RawSize == 16

EntropySize == 10

Invalid == 255

\* the length of the JSON form
JSONSize == 28

\* the double quote
Quote == 34

(***************************************************************************)
(* Byte slices.                                                            *)
(***************************************************************************)
len(v) == Cardinality(DOMAIN v)

MakeBytes(n) == [i \in 0..(n - 1) |-> 0]

\* v[lo:hi]
Slice(v, lo, hi) == [i \in 0..(hi - lo - 1) |-> v[lo + i]]

\* copy(dst[at:], src): copies min(len(dst)-at, len(src)) bytes
Copy(dst, at, src) ==
    [i \in DOMAIN dst |->
        IF i >= at /\ i - at < len(src) THEN src[i - at] ELSE dst[i]]

\* append(a, b...)
Concat(a, b) ==
    [i \in 0..(len(a) + len(b) - 1) |-> IF i < len(a) THEN a[i] ELSE b[i - len(a)]]

\* []byte{s[1], ..., s[n]}
SeqToBytes(s) == [i \in 0..(Len(s) - 1) |-> s[i + 1]]

(***************************************************************************)
(* Bit operations of the Go byte type.                                     *)
(***************************************************************************)
Pow2(n) == <<1, 2, 4, 8, 16, 32, 64, 128, 256>>[n + 1]

Bit(x, i) == (x \div Pow2(i)) % 2

\* x & y
And(x, y) ==
    Bit(x, 0) * Bit(y, 0) + 2 * Bit(x, 1) * Bit(y, 1)
    + 4 * Bit(x, 2) * Bit(y, 2) + 8 * Bit(x, 3) * Bit(y, 3)
    + 16 * Bit(x, 4) * Bit(y, 4) + 32 * Bit(x, 5) * Bit(y, 5)
    + 64 * Bit(x, 6) * Bit(y, 6) + 128 * Bit(x, 7) * Bit(y, 7)

\* x | y
Or(x, y) == x + y - And(x, y)

\* x << n on a byte: the bits shifted out of the byte are lost
Shl(x, n) == (x * Pow2(n)) % 256

\* x >> n
Shr(x, n) == x \div Pow2(n)

(***************************************************************************)
(* uint64 values, as eight bytes, most significant first.                  *)
(***************************************************************************)
U64Zero == [i \in 0..7 |-> 0]

U64Max == [i \in 0..7 |-> 255]

\* x < y on uint64
U64Less(x, y) ==
    \E i \in 0..7 : x[i] < y[i] /\ \A j \in 0..(i - 1) : x[j] = y[j]

\* x + 1 on uint64, wrapping to 0 at 2^64
U64Inc(x) ==
    [i \in 0..7 |->
        IF \A j \in (i + 1)..7 : x[j] = 255 THEN (x[i] + 1) % 256 ELSE x[i]]

\* x >> n on uint64, n a multiple of 8
U64Shr(x, n) == [i \in 0..7 |-> IF i >= n \div 8 THEN x[i - n \div 8] ELSE 0]

\* x << n on uint64, n a multiple of 8: the bytes shifted out are lost
U64Shl(x, n) == [i \in 0..7 |-> IF i + n \div 8 <= 7 THEN x[i + n \div 8] ELSE 0]

\* byte(x): the low byte of a uint64
U64Byte(x) == x[7]

\* binary.BigEndian.Uint64(b)
BigEndianUint64(b) == [i \in 0..7 |-> b[i]]

\* binary.BigEndian.PutUint64(b, v): writes b[0..7]
BigEndianPutUint64(b, v) == [i \in DOMAIN b |-> IF i <= 7 THEN v[i] ELSE b[i]]

\* MaxTime = math.MaxUint64 >> 16
MaxTime == U64Shr(U64Max, 16)

(***************************************************************************)
(* The Crockford Base32 tables.                                            *)
(***************************************************************************)
encTable ==
    << 48, 49, 50, 51, 52, 53, 54, 55, 56, 57,
       65, 66, 67, 68, 69, 70, 71, 72, 74, 75,
       77, 78, 80, 81, 82, 83, 84, 86, 87, 88,
       89, 90 >>

enc(x) == encTable[x + 1]

decTable ==
    <<  255, 255, 255, 255, 255, 255, 255, 255, 255, 255, 255, 255, 255, 255, 255, 255,
        255, 255, 255, 255, 255, 255, 255, 255, 255, 255, 255, 255, 255, 255, 255, 255,
        255, 255, 255, 255, 255, 255, 255, 255, 255, 255, 255, 255, 255, 255, 255, 255,
        0, 1, 2, 3, 4, 5, 6, 7, 8, 9, 255, 255, 255, 255, 255, 255,
        255, 10, 11, 12, 13, 14, 15, 16, 17, 255, 18, 19, 255, 20, 21, 255,
        22, 23, 24, 25, 26, 255, 27, 28, 29, 30, 31, 255, 255, 255, 255, 255,
        255, 10, 11, 12, 13, 14, 15, 16, 17, 255, 18, 19, 255, 20, 21, 255,
        22, 23, 24, 25, 26, 255, 27, 28, 29, 30, 31, 255, 255, 255, 255, 255,
        255, 255, 255, 255, 255, 255, 255, 255, 255, 255, 255, 255, 255, 255, 255, 255,
        255, 255, 255, 255, 255, 255, 255, 255, 255, 255, 255, 255, 255, 255, 255, 255,
        255, 255, 255, 255, 255, 255, 255, 255, 255, 255, 255, 255, 255, 255, 255, 255,
        255, 255, 255, 255, 255, 255, 255, 255, 255, 255, 255, 255, 255, 255, 255, 255,
        255, 255, 255, 255, 255, 255, 255, 255, 255, 255, 255, 255, 255, 255, 255, 255,
        255, 255, 255, 255, 255, 255, 255, 255, 255, 255, 255, 255, 255, 255, 255, 255,
        255, 255, 255, 255, 255, 255, 255, 255, 255, 255, 255, 255, 255, 255, 255, 255,
        255, 255, 255, 255, 255, 255, 255, 255, 255, 255, 255, 255, 255, 255, 255, 255 >>

\* a decoding table without the lower-case entries
decUpperOnly(c) == IF c \in 97..122 THEN Invalid ELSE decTable[c + 1]

dec(c) == decTable[c + 1]

(***************************************************************************)
(* The identifier and its text codec.                                      *)
(***************************************************************************)
\* ULID{}: the zero value
ZeroULID == [i \in 0..(RawSize - 1) |-> 0]

\* func parse(v []byte, strict bool) (id ULID, err error)
parseBadTime(v) ==
    dec(v[0]) = Invalid \/ dec(v[1]) = Invalid \/ dec(v[2]) = Invalid
    \/ dec(v[3]) = Invalid \/ dec(v[4]) = Invalid \/ dec(v[5]) = Invalid
    \/ dec(v[6]) = Invalid \/ dec(v[7]) = Invalid \/ dec(v[8]) = Invalid
    \/ dec(v[9]) = Invalid

parseDecode(v) ==
    (0 :> Or(Shl(dec(v[0]), 5), dec(v[1])))
    @@ (1 :> Or(Shl(dec(v[2]), 3), Shr(dec(v[3]), 2)))
    @@ (2 :> Or(Or(Shl(dec(v[3]), 6), Shl(dec(v[4]), 1)), Shr(dec(v[5]), 4)))
    @@ (3 :> Or(Shl(dec(v[5]), 4), Shr(dec(v[6]), 1)))
    @@ (4 :> Or(Or(Shl(dec(v[6]), 7), Shl(dec(v[7]), 2)), Shr(dec(v[8]), 3)))
    @@ (5 :> Or(Shl(dec(v[8]), 5), dec(v[9])))
    @@ (6 :> Or(Shl(dec(v[10]), 3), Shr(dec(v[11]), 2)))
    @@ (7 :> Or(Or(Shl(dec(v[11]), 6), Shl(dec(v[12]), 1)), Shr(dec(v[13]), 4)))
    @@ (8 :> Or(Shl(dec(v[13]), 4), Shr(dec(v[14]), 1)))
    @@ (9 :> Or(Or(Shl(dec(v[14]), 7), Shl(dec(v[15]), 2)), Shr(dec(v[16]), 3)))
    @@ (10 :> Or(Shl(dec(v[16]), 5), dec(v[17])))
    @@ (11 :> Or(Shl(dec(v[18]), 3), Shr(dec(v[19]), 2)))
    @@ (12 :> Or(Or(Shl(dec(v[19]), 6), Shl(dec(v[20]), 1)), Shr(dec(v[21]), 4)))
    @@ (13 :> Or(Shl(dec(v[21]), 4), Shr(dec(v[22]), 1)))
    @@ (14 :> Or(Or(Shl(dec(v[22]), 7), Shl(dec(v[23]), 2)), Shr(dec(v[24]), 3)))
    @@ (15 :> Or(Shl(dec(v[24]), 5), dec(v[25])))

\* parse with the carry of v[8] into id[5] taken from the wrong character
parseWrongCarry(v, strict) ==
    IF len(v) # EncodedSize THEN [id |-> ZeroULID, err |-> "ErrDataSize"]
    ELSE IF parseBadTime(v) THEN [id |-> ZeroULID, err |-> "ErrInvalidCharacters"]
    ELSE IF v[0] > 55 THEN [id |-> ZeroULID, err |-> "ErrOverflow"]
    ELSE IF strict /\ \E i \in DOMAIN v : dec(v[i]) = Invalid
        THEN [id |-> parseDecode(v), err |-> "ErrInvalidCharacters"]
    ELSE [id |-> [parseDecode(v) EXCEPT ![5] = Or(Shl(dec(v[7]), 5), dec(v[9]))],
          err |-> "nil"]

\* parse validating all 26 characters in both modes
parseAlwaysStrict(v, strict) ==
    IF len(v) # EncodedSize THEN [id |-> ZeroULID, err |-> "ErrDataSize"]
    ELSE IF \E i \in DOMAIN v : dec(v[i]) = Invalid
        THEN [id |-> ZeroULID, err |-> "ErrInvalidCharacters"]
    ELSE IF v[0] > 55 THEN [id |-> ZeroULID, err |-> "ErrOverflow"]
    ELSE [id |-> parseDecode(v), err |-> "nil"]

\* parse with the overflow check after the strict scan
parseLateOverflow(v, strict) ==
    IF len(v) # EncodedSize THEN [id |-> ZeroULID, err |-> "ErrDataSize"]
    ELSE IF parseBadTime(v) THEN [id |-> ZeroULID, err |-> "ErrInvalidCharacters"]
    ELSE IF strict /\ \E i \in DOMAIN v : dec(v[i]) = Invalid
        THEN [id |-> parseDecode(v), err |-> "ErrInvalidCharacters"]
    ELSE IF v[0] > 55 THEN [id |-> ZeroULID, err |-> "ErrOverflow"]
    ELSE [id |-> parseDecode(v), err |-> "nil"]

\* parse rejecting only inputs that are too short
parseShortOnly(v, strict) ==
    IF len(v) < EncodedSize THEN [id |-> ZeroULID, err |-> "ErrDataSize"]
    ELSE IF parseBadTime(v) THEN [id |-> ZeroULID, err |-> "ErrInvalidCharacters"]
    ELSE IF v[0] > 55 THEN [id |-> ZeroULID, err |-> "ErrOverflow"]
    ELSE IF strict /\ \E i \in DOMAIN v : dec(v[i]) = Invalid
        THEN [id |-> parseDecode(v), err |-> "ErrInvalidCharacters"]
    ELSE [id |-> parseDecode(v), err |-> "nil"]

parse(v, strict) ==
    IF len(v) # EncodedSize THEN [id |-> ZeroULID, err |-> "ErrDataSize"]
    ELSE IF parseBadTime(v) THEN [id |-> ZeroULID, err |-> "ErrInvalidCharacters"]
    ELSE IF v[0] > 55 THEN [id |-> ZeroULID, err |-> "ErrOverflow"]
    ELSE IF strict /\ \E i \in DOMAIN v : dec(v[i]) = Invalid
        THEN [id |-> parseDecode(v), err |-> "ErrInvalidCharacters"]
    ELSE [id |-> parseDecode(v), err |-> "nil"]

\* func Parse(s string) (id ULID, err error)
Parse(s) == parse(s, FALSE)

\* func ParseStrict(s string) (id ULID, err error)
ParseStrict(s) == parse(s, TRUE)

\* the 26 symbols MarshalTextTo writes
encodeText(id) ==
    (0 :> enc(Shr(And(id[0], 224), 5)))
    @@ (1 :> enc(And(id[0], 31)))
    @@ (2 :> enc(Shr(And(id[1], 248), 3)))
    @@ (3 :> enc(Or(Shl(And(id[1], 7), 2), Shr(And(id[2], 192), 6))))
    @@ (4 :> enc(Shr(And(id[2], 62), 1)))
    @@ (5 :> enc(Or(Shl(And(id[2], 1), 4), Shr(And(id[3], 240), 4))))
    @@ (6 :> enc(Or(Shl(And(id[3], 15), 1), Shr(And(id[4], 128), 7))))
    @@ (7 :> enc(Shr(And(id[4], 124), 2)))
    @@ (8 :> enc(Or(Shl(And(id[4], 3), 3), Shr(And(id[5], 224), 5))))
    @@ (9 :> enc(And(id[5], 31)))
    @@ (10 :> enc(Shr(And(id[6], 248), 3)))
    @@ (11 :> enc(Or(Shl(And(id[6], 7), 2), Shr(And(id[7], 192), 6))))
    @@ (12 :> enc(Shr(And(id[7], 62), 1)))
    @@ (13 :> enc(Or(Shl(And(id[7], 1), 4), Shr(And(id[8], 240), 4))))
    @@ (14 :> enc(Or(Shl(And(id[8], 15), 1), Shr(And(id[9], 128), 7))))
    @@ (15 :> enc(Shr(And(id[9], 124), 2)))
    @@ (16 :> enc(Or(Shl(And(id[9], 3), 3), Shr(And(id[10], 224), 5))))
    @@ (17 :> enc(And(id[10], 31)))
    @@ (18 :> enc(Shr(And(id[11], 248), 3)))
    @@ (19 :> enc(Or(Shl(And(id[11], 7), 2), Shr(And(id[12], 192), 6))))
    @@ (20 :> enc(Shr(And(id[12], 62), 1)))
    @@ (21 :> enc(Or(Shl(And(id[12], 1), 4), Shr(And(id[13], 240), 4))))
    @@ (22 :> enc(Or(Shl(And(id[13], 15), 1), Shr(And(id[14], 128), 7))))
    @@ (23 :> enc(Shr(And(id[14], 124), 2)))
    @@ (24 :> enc(Or(Shl(And(id[14], 3), 3), Shr(And(id[15], 224), 5))))
    @@ (25 :> enc(And(id[15], 31)))

\* MarshalTextTo with dst[3] missing the two bits it takes from id[2]
MarshalTextToNoCarry(id, dst) ==
    IF len(dst) # EncodedSize THEN [dst |-> dst, err |-> "ErrBufferSize"]
    ELSE [dst |-> [encodeText(id) EXCEPT ![3] = enc(Shl(And(id[1], 7), 2))],
          err |-> "nil"]

\* func (id ULID) MarshalTextTo(dst []byte) error
MarshalTextTo(id, dst) ==
    IF len(dst) # EncodedSize THEN [dst |-> dst, err |-> "ErrBufferSize"]
    ELSE [dst |-> encodeText(id), err |-> "nil"]

\* func (id ULID) MarshalText() ([]byte, error)
MarshalText(id) ==
    LET r == MarshalTextTo(id, MakeBytes(EncodedSize))
    IN  [data |-> r.dst, err |-> r.err]

\* func (id ULID) MarshalBinaryTo(dst []byte) error
MarshalBinaryTo(id, dst) ==
    IF len(dst) # RawSize THEN [dst |-> dst, err |-> "ErrBufferSize"]
    ELSE [dst |-> Copy(dst, 0, id), err |-> "nil"]

\* func (id ULID) MarshalBinary() ([]byte, error)
MarshalBinary(id) ==
    LET r == MarshalBinaryTo(id, MakeBytes(RawSize))
    IN  [data |-> r.dst, err |-> r.err]

\* func (id *ULID) UnmarshalBinary(data []byte) error
UnmarshalBinary(id, data) ==
    IF len(data) # RawSize THEN [id |-> id, err |-> "ErrDataSize"]
    ELSE [id |-> Copy(id, 0, data), err |-> "nil"]

\* UnmarshalText assigning what parse returned before looking at the error
UnmarshalTextAssignFirst(id, v) ==
    LET r == parse(v, FALSE) IN [id |-> r.id, err |-> r.err]

\* func (id *ULID) UnmarshalText(v []byte) error
UnmarshalText(id, v) ==
    LET r == parse(v, FALSE)
    IN  IF r.err # "nil" THEN [id |-> id, err |-> r.err]
        ELSE [id |-> r.id, err |-> "nil"]

\* func (id ULID) MarshalJSON() ([]byte, error)
MarshalJSON(id) ==
    LET res == [MakeBytes(JSONSize) EXCEPT ![0] = Quote]
        text == MarshalTextTo(id, Slice(res, 1, JSONSize - 1)).dst
    IN  [data |-> [Copy(res, 1, text) EXCEPT ![JSONSize - 1] = Quote],
         err |-> "nil"]

\* UnmarshalJSON without the test of the two quotes
UnmarshalJSONAnyQuotes(id, data) ==
    IF len(data) # JSONSize THEN [id |-> id, err |-> "ErrDataSize"]
    ELSE UnmarshalText(id, Slice(data, 1, JSONSize - 1))

\* func (id *ULID) UnmarshalJSON(data []byte) error
UnmarshalJSON(id, data) ==
    IF len(data) # JSONSize \/ data[0] # Quote \/ data[JSONSize - 1] # Quote
        THEN [id |-> id, err |-> "ErrDataSize"]
    ELSE UnmarshalText(id, Slice(data, 1, JSONSize - 1))

\* func (id ULID) Time() uint64
Time(id) == U64Shr(BigEndianUint64(Slice(id, 0, 8)), 16)

\* SetTime writing the time before checking it
SetTimeWriteFirst(id, ms) ==
    [id |-> BigEndianPutUint64(id, U64Shl(ms, 16)),
     err |-> IF U64Less(MaxTime, ms) THEN "ErrBigTime" ELSE "nil"]

\* func (id *ULID) SetTime(ms uint64) error
SetTime(id, ms) ==
    IF U64Less(MaxTime, ms) THEN [id |-> id, err |-> "ErrBigTime"]
    ELSE [id |-> BigEndianPutUint64(id, U64Shl(ms, 16)), err |-> "nil"]

\* func (id ULID) Entropy() []byte
Entropy(id) == Copy(MakeBytes(EntropySize), 0, Slice(id, 6, RawSize))

\* func (id *ULID) SetEntropy(e []byte) error
SetEntropy(id, e) ==
    IF len(e) # EntropySize THEN [id |-> id, err |-> "ErrDataSize"]
    ELSE [id |-> Copy(id, 6, e), err |-> "nil"]

\* func (id ULID) Compare(other ULID) int: the loop from byte i on
RECURSIVE CompareFrom(_, _, _)
CompareFrom(id, other, i) ==
    IF i >= RawSize THEN 0
    ELSE IF id[i] < other[i] THEN -1
    ELSE IF id[i] > other[i] THEN 1
    ELSE CompareFrom(id, other, i + 1)

\* Compare with a loop that stops one byte early
CompareButLast(id, other) ==
    CompareFrom([id EXCEPT ![RawSize - 1] = 0], [other EXCEPT ![RawSize - 1] = 0], 0)

Compare(id, other) == CompareFrom(id, other, 0)

\* func (id ULID) Less(other ULID) bool
Less(id, other) == Compare(id, other) < 0

\* func (id ULID) Greater(other ULID) bool
Greater(id, other) == Compare(id, other) > 0

\* func (id ULID) Equal(other ULID) bool
Equal(id, other) == id = other

\* Scan without the []byte case
ScanStringsOnly(id, x) ==
    IF x.type = "nil" THEN [id |-> id, err |-> "nil"]
    ELSE IF x.type = "string" THEN UnmarshalText(id, x.v)
    ELSE [id |-> id, err |-> "ErrScanValue"]

\* func (id *ULID) Scan(src interface{}) error; src is [type, v], and
\* []byte(x) of a string x has x's bytes
Scan(id, x) ==
    IF x.type = "nil" THEN [id |-> id, err |-> "nil"]
    ELSE IF x.type = "string" THEN UnmarshalText(id, x.v)
    ELSE IF x.type = "[]byte" THEN UnmarshalText(id, x.v)
    ELSE [id |-> id, err |-> "ErrScanValue"]

\* func (id ULID) IsZero() bool
IsZero(id) == id = ZeroULID

\* var Nil ULID
Nil == ZeroULID

\* func (id ULID) IsNil() bool
IsNil(id) == id = Nil

\* bits.Len8: the number of bits needed to write x
RECURSIVE Len8(_)
Len8(x) == IF x = 0 THEN 0 ELSE 1 + Len8(x \div 2)

\* bits.LeadingZeros8
LeadingZeros8(x) == 8 - Len8(x)

\* bits.TrailingZeros8
RECURSIVE TrailingZeros8(_)
TrailingZeros8(x) ==
    IF x = 0 THEN 8 ELSE IF x % 2 = 1 THEN 0 ELSE 1 + TrailingZeros8(x \div 2)

\* the loop of LeadingZeros from byte i on
RECURSIVE LeadingZerosFrom(_, _)
LeadingZerosFrom(id, i) ==
    IF i >= RawSize THEN 128
    ELSE IF id[i] # 0 THEN i * 8 + LeadingZeros8(id[i])
    ELSE LeadingZerosFrom(id, i + 1)

\* the loop of LeadingZeros counting whole bytes only
LeadingZerosWholeBytes(id) ==
    LET zero == {i \in 0..(RawSize - 1) : \A j \in 0..i : id[j] = 0}
    IN  8 * Cardinality(zero)

\* func (id ULID) LeadingZeros() int
LeadingZeros(id) == LeadingZerosFrom(id, 0)

\* the loop of TrailingZeros from byte i down
RECURSIVE TrailingZerosFrom(_, _)
TrailingZerosFrom(id, i) ==
    IF i < 0 THEN 128
    ELSE IF id[i] # 0 THEN (len(id) - i - 1) * 8 + TrailingZeros8(id[i])
    ELSE TrailingZerosFrom(id, i - 1)

\* func (id ULID) TrailingZeros() int
TrailingZeros(id) == TrailingZerosFrom(id, len(id) - 1)

(***************************************************************************)
(* The process-wide string cache.  stringCache maps a handle (the ULID     *)
(* value itself, as unique.Make interns by value) to a weak pointer: the   *)
(* string it refers to and whether the collector has left it alive.        *)
(***************************************************************************)
CacheHit(cache, id) == id \in DOMAIN cache /\ cache[id].live

CacheStore(cache, id, s) ==
    [h \in DOMAIN cache \cup {id} |->
        IF h = id THEN [live |-> TRUE, s |-> s] ELSE cache[h]]

\* func (id ULID) String() string, run alone: the string and the cache after
String(id, cache) ==
    IF CacheHit(cache, id) THEN [s |-> cache[id].s, cache |-> cache]
    ELSE LET buf == MarshalTextTo(id, MakeBytes(EncodedSize)).dst
         IN  [s |-> buf, cache |-> CacheStore(cache, id, buf)]

\* func (id ULID) Value() (driver.Value, error): a string in a driver.Value
Value(id, cache) ==
    LET r == String(id, cache)
    IN  [val |-> [type |-> "string", v |-> r.s], err |-> "nil", cache |-> r.cache]

(***************************************************************************)
(* Entropy sources.  A caller-supplied io.Reader is a stream: the bytes it *)
(* still holds, how many it hands out per Read at most, and the error it   *)
(* returns once it is empty.                                               *)
(***************************************************************************)
Min(a, b) == IF a < b THEN a ELSE b

\* one Read(p) of a stream with len(p) = n
StreamRead(s, n) ==
    IF len(s.data) = 0 THEN [data |-> MakeBytes(0), err |-> s.fail, src |-> s]
    ELSE LET k == Min(n, Min(s.chunk, len(s.data)))
         IN  [data |-> Slice(s.data, 0, k), err |-> "nil",
              src |-> [s EXCEPT !.data = Slice(s.data, k, len(s.data))]]

\* io.ReadFull(s, buf) with len(buf) = n: Read until n bytes or an error;
\* io.EOF after some but not all bytes becomes io.ErrUnexpectedEOF
RECURSIVE ReadAtLeast(_, _, _)
ReadAtLeast(s, got, n) ==
    IF len(got) >= n THEN [data |-> got, err |-> "nil", src |-> s]
    ELSE LET r == StreamRead(s, n - len(got))
         IN  IF r.err # "nil"
             THEN [data |-> got,
                   err |-> IF len(got) > 0 /\ r.err = "EOF"
                           THEN "ErrUnexpectedEOF" ELSE r.err,
                   src |-> r.src]
             ELSE ReadAtLeast(r.src, Concat(got, r.data), n)

ReadFull(s, n) == ReadAtLeast(s, MakeBytes(0), n)

(***************************************************************************)
(* The monotonic entropy reader: monoReader{Reader, ms, inc, rand}.  The   *)
(* embedded Reader is the stream s the operators take and give back.       *)
(***************************************************************************)
\* func MonotonicReader(ms uint64, entropy io.Reader) io.Reader
\* binary.Read of a uint64 is io.ReadFull of 8 bytes; an error panics
MonotonicReader(ms, s) ==
    LET r == ReadFull(s, 8)
    IN  IF r.err # "nil"
        THEN [panic |-> TRUE, m |-> [ms |-> ms, inc |-> U64Zero, rand |-> U64Zero],
              src |-> r.src]
        ELSE [panic |-> FALSE,
              m |-> [ms |-> ms, inc |-> BigEndianUint64(r.data),
                     rand |-> BigEndianUint64(r.data)],
              src |-> r.src]

\* the bytes Read leaves in p: PutUint64(p[:8], inc); copy(p[:], p[2:10])
monoEmit(p, inc) ==
    LET q == BigEndianPutUint64(p, inc)
    IN  Copy(q, 0, Slice(q, 2, 10))

\* func (m *monoReader) Read(p []byte) (n int, err error)
monoRead(mr, s, p) ==
    IF len(p) # 10
    THEN [n |-> 0, err |-> "ErrDataSize", p |-> p, m |-> mr, src |-> s]
    ELSE IF mr.ms = U64Zero
    THEN LET r == ReadFull(s, 8)
         IN  IF r.err # "nil"
             THEN [n |-> 0, err |-> r.err, p |-> p, m |-> mr, src |-> r.src]
             ELSE LET seeded == [mr EXCEPT !.rand = BigEndianUint64(r.data),
                                           !.inc = BigEndianUint64(r.data)]
                  IN  [n |-> 10, err |-> "nil", p |-> monoEmit(p, seeded.inc),
                       m |-> seeded, src |-> r.src]
    ELSE LET stepped == [mr EXCEPT !.inc = U64Inc(mr.inc)]
         IN  IF U64Less(stepped.inc, stepped.rand)
             THEN [n |-> 0, err |-> "ErrMonotonicOverflow", p |-> p,
                   m |-> stepped, src |-> s]
             ELSE [n |-> 10, err |-> "nil", p |-> monoEmit(p, stepped.inc),
                   m |-> stepped, src |-> s]

(***************************************************************************)
(* The constructor.                                                        *)
(***************************************************************************)
\* newHeader with the two low bytes of the timestamp swapped
newHeaderSwapped(ms) ==
    [i \in 0..(RawSize - 1) |->
        CASE i = 0 -> U64Byte(U64Shr(ms, 40))
          [] i = 1 -> U64Byte(U64Shr(ms, 32))
          [] i = 2 -> U64Byte(U64Shr(ms, 24))
          [] i = 3 -> U64Byte(U64Shr(ms, 16))
          [] i = 4 -> U64Byte(ms)
          [] i = 5 -> U64Byte(U64Shr(ms, 8))
          [] OTHER -> 0]

\* New, lines 102-108: the timestamp written into a zero ULID
newHeader(ms) ==
    [i \in 0..(RawSize - 1) |->
        CASE i = 0 -> U64Byte(U64Shr(ms, 40))
          [] i = 1 -> U64Byte(U64Shr(ms, 32))
          [] i = 2 -> U64Byte(U64Shr(ms, 24))
          [] i = 3 -> U64Byte(U64Shr(ms, 16))
          [] i = 4 -> U64Byte(U64Shr(ms, 8))
          [] i = 5 -> U64Byte(ms)
          [] OTHER -> 0]

\* func newWithCustomEntropy(id ULID, entropy io.Reader) (ULID, error),
\* entropy a stream: io.ReadFull(entropy, id[6:])
newWithCustomEntropy(id, s, mr) ==
    LET r == ReadFull(s, EntropySize)
    IN  IF r.err # "nil"
        THEN [id |-> ZeroULID, err |-> r.err, src |-> r.src, m |-> mr]
        ELSE [id |-> Copy(id, 6, r.data), err |-> "nil", src |-> r.src, m |-> mr]

\* newWithCustomEntropy, entropy a monoReader: io.ReadFull calls its Read
\* once with p = id[6:], and Read gives all 10 bytes or an error
newWithMonotonic(id, s, mr) ==
    LET r == monoRead(mr, s, Slice(id, 6, RawSize))
    IN  IF r.err # "nil"
        THEN [id |-> ZeroULID, err |-> r.err, src |-> r.src, m |-> r.m]
        ELSE [id |-> Copy(id, 6, r.p), err |-> "nil", src |-> r.src, m |-> r.m]

\* New, lines 111-116, entropy nil or rand.Reader: rand.Read(id[6:]) fills
\* all of id[6:] from the system's random stream s, or fails
newWithCryptoRand(id, s, mr) ==
    IF len(s.data) < EntropySize
    THEN [id |-> ZeroULID, err |-> s.fail, src |-> s, m |-> mr]
    ELSE [id |-> Copy(id, 6, Slice(s.data, 0, EntropySize)), err |-> "nil",
          src |-> [s EXCEPT !.data = Slice(s.data, EntropySize, len(s.data))],
          m |-> mr]

\* func New(ms uint64, entropy io.Reader) (ULID, error).  entropy is "nil"
\* (crypto/rand, s its stream), "stream" (the caller's s) or "mono" (mr over s)
New(ms, entropy, s, mr) ==
    IF U64Less(MaxTime, ms)
    THEN [id |-> ZeroULID, err |-> "ErrBigTime", src |-> s, m |-> mr]
    ELSE IF entropy = "nil" THEN newWithCryptoRand(newHeader(ms), s, mr)
    ELSE IF entropy = "stream" THEN newWithCustomEntropy(newHeader(ms), s, mr)
    ELSE newWithMonotonic(newHeader(ms), s, mr)

(***************************************************************************)
(* Bounds of the model and the inputs drawn within them.                   *)
(***************************************************************************)
\* how many of SampleBytes the inputs are built from
NumSamples == 4

\* how many of SampleChars the text inputs are built from
NumChars == 5

\* text and binary inputs of a wrong length are up to LenSlack off
LenSlack == 2

\* calls made on one monotonic reader
MaxReads == 3

\* goroutines that call String() concurrently
NumGoroutines == 2

SampleBytes == <<0, 255, 1, 128, 127, 254, 31, 32>>

ByteVals == {SampleBytes[k] : k \in 1..Min(NumSamples, Len(SampleBytes))}

\* '!' '8' 'a' 'Z' 'I' '7' 'u' 'z' 0xFF '0'
SampleChars == <<33, 56, 97, 90, 73, 55, 117, 122, 255, 48>>

CharVals == {SampleChars[k] : k \in 1..Min(NumChars, Len(SampleChars))}

\* n bytes, all f but byte p, which is v
Patterned(n, f, p, v) == [i \in 0..(n - 1) |-> IF i = p THEN v ELSE f]

\* n bytes without a pattern
Ramp(n, v) == [i \in 0..(n - 1) |-> (i * 37 + v + 11) % 256]

Fills == {0, 255}

IDs ==
    {Patterned(RawSize, f, p, v) : f \in Fills, p \in 0..(RawSize - 1), v \in ByteVals}
    \cup {Ramp(RawSize, 0)}

FewIDs == {Ramp(RawSize, 0), ZeroULID}

\* ULIDs with two neighbouring bits at every place of a byte, in the first
\* and last byte of the time and of the entropy
BitIDs ==
    {Patterned(RawSize, f, p, (3 * Pow2(k)) % 256) :
        f \in Fills, p \in {0, 5, 6, RawSize - 1}, k \in 0..7}

U64s ==
    {Patterned(8, f, p, v) : f \in Fills, p \in 0..7, v \in ByteVals}
    \cup {MaxTime, U64Inc(MaxTime), U64Shr(Ramp(8, 0), 16)}

\* "01ARZ3NDEKTSV4RRFFQ69G5FAV"
KnownText ==
    SeqToBytes(<<48, 49, 65, 82, 90, 51, 78, 68, 69, 75, 84, 83, 86,
                 52, 82, 82, 70, 70, 81, 54, 57, 71, 53, 70, 65, 86>>)

\* "7ZZZZZZZZZZZZZZZZZZZZZZZZZ"
TopText == [i \in 0..(EncodedSize - 1) |-> IF i = 0 THEN 55 ELSE 90]

BaseTexts == {KnownText, TopText}

\* 26-character inputs: a base text with its first character and one other
\* character kept or replaced by a sample character
Texts26 ==
    {[i \in 0..(EncodedSize - 1) |->
        IF i = 0 THEN c0 ELSE IF i = q THEN c ELSE b[i]] :
        b \in BaseTexts, q \in 1..(EncodedSize - 1),
        c0 \in CharVals \cup {48, 55}, c \in CharVals \cup {48}}

\* v cut or padded (with its own bytes, wrapping round) to n bytes
Resized(v, n) == [i \in 0..(n - 1) |-> v[i % len(v)]]

WrongLens(n) == ({0, 1} \cup ((n - LenSlack)..(n + LenSlack))) \ {n}

TextsWrongLen ==
    {Resized([b EXCEPT ![0] = c0], n) :
        b \in BaseTexts, c0 \in CharVals \cup {48}, n \in WrongLens(EncodedSize)}

\* v with the letters at the positions divisible by k in lower case; k = 0
\* leaves v as it is
LowerCased(v, k) ==
    [i \in DOMAIN v |->
        IF k > 0 /\ i % k = 0 /\ v[i] \in 65..90 THEN v[i] + 32 ELSE v[i]]

CaseSteps == 0..3

\* the encodings of the ULIDs, and the base texts, in upper and mixed case
TextsCased ==
    {LowerCased(encodeText(x), k) : x \in IDs, k \in CaseSteps}
    \cup {LowerCased(b, k) : b \in BaseTexts, k \in CaseSteps}

Texts == Texts26 \cup TextsWrongLen \cup TextsCased

\* the known text with one character replaced by a sample character
TextsOneChar ==
    {[KnownText EXCEPT ![q] = c] :
        q \in 0..(EncodedSize - 1), c \in CharVals \cup {48}}

\* what a database driver hands to Scan: nothing, a string, a byte slice
\* (a nil one has length 0), or a value of another type
ScanValues ==
    {[type |-> "nil", v |-> MakeBytes(0)]}
    \cup {[type |-> "string", v |-> t] : t \in TextsCased \cup TextsWrongLen}
    \cup {[type |-> "[]byte", v |-> t] : t \in TextsOneChar \cup TextsWrongLen}
    \cup {[type |-> ty, v |-> x] :
            ty \in {"int64", "float64"}, x \in {U64Zero, Ramp(8, 0)}}
    \cup {[type |-> "*string", v |-> KnownText]}

\* the text v between two double quotes
Quoted(v) ==
    [i \in 0..(len(v) + 1) |-> IF i = 0 \/ i = len(v) + 1 THEN Quote ELSE v[i - 1]]

\* JSON inputs: texts in quotes, of the right length and of wrong ones, and
\* 28 bytes with another character where a quote belongs
JSONsQuoted ==
    {Quoted(t) : t \in TextsCased \cup TextsWrongLen \cup TextsOneChar}

JSONsBadQuote ==
    {[Quoted(t) EXCEPT ![q] = c] :
        t \in BaseTexts \cup {LowerCased(KnownText, 1)},
        q \in {0, JSONSize - 1}, c \in CharVals \cup {39}}

JSONsWrongLen ==
    {Resized(Quoted(KnownText), n) : n \in WrongLens(JSONSize)}
    \cup {Concat(Quoted(KnownText), Ramp(n, 0)) : n \in 1..LenSlack}

JSONs == JSONsQuoted \cup JSONsBadQuote \cup JSONsWrongLen

ByteSlices ==
    {Ramp(n, v) : n \in {RawSize, EntropySize} \cup WrongLens(RawSize)
                         \cup WrongLens(EntropySize),
                  v \in ByteVals}

\* caller-supplied streams for New: enough bytes, too few, none
Streams ==
    {[data |-> Ramp(n, v), chunk |-> c, fail |-> f] :
        n \in {0, EntropySize - LenSlack, EntropySize, EntropySize + LenSlack},
        v \in Fills, c \in {3, RawSize}, f \in {"EOF", "ErrSource"}}

\* what crypto/rand holds: 10 bytes to give, or a failure
CryptoStreams ==
    {[data |-> Ramp(n, v), chunk |-> EntropySize, fail |-> "ErrRand"] :
        n \in {0, EntropySize}, v \in Fills}

NoStream == [data |-> MakeBytes(0), chunk |-> 1, fail |-> "EOF"]

NoMono == [ms |-> U64Zero, inc |-> U64Zero, rand |-> U64Zero]

EmptyCache == [h \in {} |-> [live |-> FALSE, s |-> MakeBytes(0)]]

NoArg == [kind |-> "none", v |-> 0]

(***************************************************************************)
(* State.                                                                  *)
(*   id           the caller's ULID variable, receiver of the methods      *)
(*   arg          the argument of the call                                 *)
(*   call         the call made: its name, the receiver, the stream and    *)
(*                the monoReader before it, and its number                 *)
(*   ret          what the call returned: a value and an error             *)
(*   stringCache  the process-wide string cache                            *)
(*   entropy      the io.Reader the caller holds: "nil", "stream" (src     *)
(*                itself) or "mono" (the monoReader m over src)            *)
(*   src          the stream: the caller's, or crypto/rand's when entropy  *)
(*                is "nil"                                                 *)
(*   m            the monoReader                                           *)
(*   issued       the ULIDs of the latest run of successful New calls on m *)
(* and, for String() calls that run concurrently,                          *)
(*   goroutines      the goroutines inside String(): where each one is and *)
(*                   its local variables                                   *)
(*   textBufferPool  the buffers lying in the pool                         *)
(*   buffers         the content of every pooled buffer made so far        *)
(*   stringRefs      the stringRef objects made so far, and whether the    *)
(*                   garbage collector has cleared the weak pointers to    *)
(*                   them                                                  *)
(***************************************************************************)
VARIABLES id, arg, call, ret, stringCache, entropy, src, m, issued,
          goroutines, textBufferPool, buffers, stringRefs

vars ==
    <<id, arg, call, ret, stringCache, entropy, src, m, issued,
      goroutines, textBufferPool, buffers, stringRefs>>

\* the variables of the concurrent String() calls, and those of the rest
stringVars == <<goroutines, textBufferPool, buffers, stringRefs>>

callVars == <<id, arg, call, ret, entropy, src, m, issued>>

NoGoroutines ==
    /\ goroutines = <<>>
    /\ textBufferPool = {}
    /\ buffers = <<>>
    /\ stringRefs = <<>>

NoCall == [name |-> "none", recv |-> ZeroULID, src |-> NoStream, m |-> NoMono, seq |-> 0]

NoRet == [val |-> 0, err |-> "nil"]

Called(name) ==
    [name |-> name, recv |-> id, src |-> src, m |-> m, seq |-> call.seq + 1]

Ready(kind) == call.name = "none" /\ arg.kind = kind

(***************************************************************************)
(* The codec and the value type: one call on drawn inputs.                 *)
(***************************************************************************)
InitInputs ==
    \/ /\ id \in IDs
       /\ arg \in {[kind |-> "ulid", v |-> o] : o \in IDs}
       /\ stringCache = EmptyCache
       /\ entropy = "nil" /\ src = NoStream
    \/ /\ id \in IDs \cup BitIDs
       /\ arg = NoArg
       /\ stringCache \in
            {EmptyCache,
             id :> [live |-> TRUE, s |-> encodeText(id)],
             id :> [live |-> FALSE, s |-> encodeText(id)]}
       /\ entropy = "nil" /\ src = NoStream
    \/ /\ id \in FewIDs
       /\ arg \in {[kind |-> "text", v |-> s] : s \in Texts}
       /\ stringCache = EmptyCache
       /\ entropy = "nil" /\ src = NoStream
    \/ /\ id \in FewIDs
       /\ arg \in {[kind |-> "bytes", v |-> b] : b \in ByteSlices}
       /\ stringCache = EmptyCache
       /\ entropy = "nil" /\ src = NoStream
    \/ /\ id \in FewIDs
       /\ arg \in {[kind |-> "json", v |-> d] : d \in JSONs}
       /\ stringCache = EmptyCache
       /\ entropy = "nil" /\ src = NoStream
    \/ /\ id \in FewIDs
       /\ arg \in {[kind |-> "scan", v |-> x] : x \in ScanValues}
       /\ stringCache = EmptyCache
       /\ entropy = "nil" /\ src = NoStream
    \/ /\ id \in FewIDs \cup {Patterned(RawSize, 255, 0, 255)}
       /\ arg \in {[kind |-> "u64", v |-> x] : x \in U64s}
       /\ stringCache = EmptyCache
       /\ entropy = "nil" /\ src = NoStream
    \/ /\ id = ZeroULID
       /\ arg \in {[kind |-> "ms", v |-> x] : x \in U64s}
       /\ stringCache = EmptyCache
       /\ \/ entropy = "nil" /\ src \in CryptoStreams
          \/ entropy = "stream" /\ src \in Streams

Init ==
    /\ InitInputs
    /\ call = NoCall
    /\ ret = NoRet
    /\ m = NoMono
    /\ issued = <<>>
    /\ NoGoroutines

\* the call returns val and err and leaves the receiver as newId
Return(name, val, err, newId) ==
    /\ call' = Called(name)
    /\ ret' = [val |-> val, err |-> err]
    /\ id' = newId
    /\ UNCHANGED <<arg, m, issued, entropy>>
    /\ UNCHANGED stringVars

CallCompare ==
    /\ Ready("ulid")
    /\ Return("Compare", Compare(id, arg.v), "nil", id)
    /\ UNCHANGED <<stringCache, src>>

CallString ==
    /\ Ready("none")
    /\ LET r == String(id, stringCache)
       IN  /\ Return("String", r.s, "nil", id)
           /\ stringCache' = r.cache
    /\ UNCHANGED src

CallMarshalText ==
    /\ Ready("none")
    /\ LET r == MarshalText(id) IN Return("MarshalText", r.data, r.err, id)
    /\ UNCHANGED <<stringCache, src>>

CallMarshalBinary ==
    /\ Ready("none")
    /\ LET r == MarshalBinary(id) IN Return("MarshalBinary", r.data, r.err, id)
    /\ UNCHANGED <<stringCache, src>>

CallMarshalJSON ==
    /\ Ready("none")
    /\ LET r == MarshalJSON(id) IN Return("MarshalJSON", r.data, r.err, id)
    /\ UNCHANGED <<stringCache, src>>

CallUnmarshalJSON ==
    /\ Ready("json")
    /\ LET r == UnmarshalJSON(id, arg.v) IN Return("UnmarshalJSON", 0, r.err, r.id)
    /\ UNCHANGED <<stringCache, src>>

CallScan ==
    /\ Ready("scan")
    /\ LET r == Scan(id, arg.v) IN Return("Scan", 0, r.err, r.id)
    /\ UNCHANGED <<stringCache, src>>

CallValue ==
    /\ Ready("none")
    /\ LET r == Value(id, stringCache)
       IN  /\ Return("Value", r.val, r.err, id)
           /\ stringCache' = r.cache
    /\ UNCHANGED src

CallLeadingZeros ==
    /\ Ready("none")
    /\ Return("LeadingZeros", LeadingZeros(id), "nil", id)
    /\ UNCHANGED <<stringCache, src>>

CallTrailingZeros ==
    /\ Ready("none")
    /\ Return("TrailingZeros", TrailingZeros(id), "nil", id)
    /\ UNCHANGED <<stringCache, src>>

CallTime ==
    /\ Ready("none")
    /\ Return("Time", Time(id), "nil", id)
    /\ UNCHANGED <<stringCache, src>>

CallEntropy ==
    /\ Ready("none")
    /\ Return("Entropy", Entropy(id), "nil", id)
    /\ UNCHANGED <<stringCache, src>>

CallParse ==
    /\ Ready("text")
    /\ LET r == Parse(arg.v) IN Return("Parse", r.id, r.err, id)
    /\ UNCHANGED <<stringCache, src>>

CallParseStrict ==
    /\ Ready("text")
    /\ LET r == ParseStrict(arg.v) IN Return("ParseStrict", r.id, r.err, id)
    /\ UNCHANGED <<stringCache, src>>

CallUnmarshalText ==
    /\ Ready("text")
    /\ LET r == UnmarshalText(id, arg.v) IN Return("UnmarshalText", 0, r.err, r.id)
    /\ UNCHANGED <<stringCache, src>>

CallUnmarshalBinary ==
    /\ Ready("bytes")
    /\ LET r == UnmarshalBinary(id, arg.v)
       IN  Return("UnmarshalBinary", 0, r.err, r.id)
    /\ UNCHANGED <<stringCache, src>>

CallSetEntropy ==
    /\ Ready("bytes")
    /\ LET r == SetEntropy(id, arg.v) IN Return("SetEntropy", 0, r.err, r.id)
    /\ UNCHANGED <<stringCache, src>>

CallSetTime ==
    /\ Ready("u64")
    /\ LET r == SetTime(id, arg.v) IN Return("SetTime", 0, r.err, r.id)
    /\ UNCHANGED <<stringCache, src>>

\* id, err = New(ms, entropy)
CallNew ==
    /\ Ready("ms")
    /\ LET r == New(arg.v, entropy, src, m)
       IN  /\ Return("New", r.id, r.err, id)
           /\ src' = r.src
    /\ UNCHANGED stringCache

Next ==
    \/ CallCompare
    \/ CallString
    \/ CallMarshalText
    \/ CallMarshalBinary
    \/ CallMarshalJSON
    \/ CallUnmarshalJSON
    \/ CallScan
    \/ CallValue
    \/ CallLeadingZeros
    \/ CallTrailingZeros
    \/ CallTime
    \/ CallEntropy
    \/ CallParse
    \/ CallParseStrict
    \/ CallUnmarshalText
    \/ CallUnmarshalBinary
    \/ CallSetEntropy
    \/ CallSetTime
    \/ CallNew

Spec == Init /\ [][Next]_vars

(***************************************************************************)
(* The monotonic reader in use: MonotonicReader once, then Read and        *)
(* New(ms, reader) calls, MaxReads calls in all.  A run starts either with *)
(* no reader yet and a stream holding the seed, or with a reader whose     *)
(* counter has run up to 2^64 - 1: with a nonzero ms and the seed rand,    *)
(* that is the reader after 2^64 - 1 - rand successful Reads.              *)
(***************************************************************************)
MonoSeeds ==
    {Patterned(8, f, 7, v) : f \in Fills, v \in ByteVals}
    \cup {Patterned(8, 255, 7, 254), MaxTime, [MaxTime EXCEPT ![7] = 254]}

MonoTimes == {U64Zero, Patterned(8, 0, 7, 1), MaxTime}

\* the stream MonotonicReader is given: one seed, two seeds, three seeds or
\* half a seed
MonoStreams ==
    {[data |-> d, chunk |-> 8, fail |-> "EOF"] :
        d \in {s : s \in MonoSeeds}
              \cup {Concat(s, Patterned(8, 0, 7, 1)) : s \in MonoSeeds}
              \cup {Concat(Concat(s, Patterned(8, 0, 7, 1)), Ramp(8, 0)) :
                        s \in MonoSeeds}
              \cup {Ramp(4, 0)}}

ReadBufs ==
    {MakeBytes(EntropySize), Ramp(EntropySize, 0), Ramp(EntropySize - 1, 0)}

InitMono ==
    /\ id = ZeroULID
    /\ arg = NoArg
    /\ call = NoCall
    /\ ret = NoRet
    /\ stringCache = EmptyCache
    /\ issued = <<>>
    /\ NoGoroutines
    /\ \/ /\ entropy = "stream"
          /\ src \in MonoStreams
          /\ m = NoMono
       \/ /\ entropy = "mono"
          /\ src = NoStream
          /\ m \in {[ms |-> t, inc |-> U64Max, rand |-> s] :
                      t \in MonoTimes \ {U64Zero}, s \in MonoSeeds}

\* entropy = MonotonicReader(ms, src)
CallMonotonicReader ==
    /\ call.name = "none"
    /\ entropy = "stream"
    /\ \E ms \in MonoTimes :
          LET r == MonotonicReader(ms, src)
          IN  /\ arg' = [kind |-> "ms", v |-> ms]
              /\ call' = Called("MonotonicReader")
              /\ ret' = [val |-> 0, err |-> IF r.panic THEN "panic" ELSE "nil"]
              /\ entropy' = IF r.panic THEN "stream" ELSE "mono"
              /\ m' = IF r.panic THEN m ELSE r.m
              /\ src' = r.src
    /\ UNCHANGED <<id, stringCache, issued>>
    /\ UNCHANGED stringVars

\* n, err = entropy.Read(p)
CallRead ==
    /\ entropy = "mono"
    /\ call.seq < MaxReads
    /\ \E p \in ReadBufs :
          LET r == monoRead(m, src, p)
          IN  /\ arg' = [kind |-> "bytes", v |-> p]
              /\ call' = Called("Read")
              /\ ret' = [val |-> [n |-> r.n, p |-> r.p], err |-> r.err]
              /\ m' = r.m
              /\ src' = r.src
    /\ issued' = <<>>
    /\ UNCHANGED <<id, stringCache, entropy>>
    /\ UNCHANGED stringVars

\* id, err = New(ms, entropy), with the reader's ms or one that is too big
CallNewMonotonic ==
    /\ entropy = "mono"
    /\ call.seq < MaxReads
    /\ \E ms \in {m.ms, U64Inc(MaxTime)} :
          LET r == New(ms, entropy, src, m)
          IN  /\ arg' = [kind |-> "ms", v |-> ms]
              /\ call' = Called("New")
              /\ ret' = [val |-> r.id, err |-> r.err]
              /\ m' = r.m
              /\ src' = r.src
              /\ issued' = IF r.err = "nil" THEN Append(issued, r.id) ELSE <<>>
    /\ UNCHANGED <<id, stringCache, entropy>>
    /\ UNCHANGED stringVars

NextMono ==
    \/ CallMonotonicReader
    \/ CallRead
    \/ CallNewMonotonic

SpecMono == InitMono /\ [][NextMono]_vars

(***************************************************************************)
(* String() called from several goroutines at once, with the garbage       *)
(* collector running.  Each goroutine makes one call; a step is one        *)
(* statement of String(), and MarshalTextTo's writes are two steps, the    *)
(* ten characters of the time and the sixteen of the entropy.              *)
(*   stringCache maps a handle (the ULID, after unique.Make) to a weak     *)
(* pointer, the number of a stringRef in stringRefs; a weak pointer is     *)
(* cleared once nothing else refers to its stringRef, which is the case as *)
(* soon as Store has it, ref being dead after the Store.  sync.Pool hands  *)
(* a buffer to one goroutine at a time, and may make a new one whatever    *)
(* lies in it.  A local variable that is not read again (v after Value,    *)
(* bufPtr after Put) is set back to 0.  Goroutines being alike, a run      *)
(* starts with their ULIDs in order; pool and cache start empty, or as an  *)
(* earlier String() call on the first ULID has left them: its buffer in    *)
(* the pool, its entry in the cache.                                       *)
(***************************************************************************)
Goroutines == 1..NumGoroutines

StringIDs == {Ramp(RawSize, 0), Ramp(RawSize, 1)}

Entering(x) ==
    [pc |-> "load", id |-> x, v |-> 0, buf |-> 0, s |-> MakeBytes(0), hit |-> FALSE]

InitString ==
    /\ id = ZeroULID
    /\ arg = NoArg
    /\ call = NoCall
    /\ ret = NoRet
    /\ entropy = "nil"
    /\ src = NoStream
    /\ m = NoMono
    /\ issued = <<>>
    /\ goroutines \in [Goroutines -> {Entering(x) : x \in StringIDs}]
    /\ \A g \in Goroutines \ {1} :
          Compare(goroutines[g - 1].id, goroutines[g].id) <= 0
    /\ \/ /\ buffers = <<>>
          /\ textBufferPool = {}
          /\ stringCache = EmptyCache
          /\ stringRefs = <<>>
       \/ /\ buffers = <<MarshalText(Ramp(RawSize, 0)).data>>
          /\ textBufferPool = {1}
          /\ stringCache = Ramp(RawSize, 0) :> 1
          /\ stringRefs = <<[s |-> MarshalText(Ramp(RawSize, 0)).data, live |-> TRUE]>>

\* goroutine g goes on to pc
Goto(g, pc) == goroutines' = [goroutines EXCEPT ![g].pc = pc]

At(g, pc) == goroutines[g].pc = pc

\* v, ok := stringCache.Load(h)
StringLoad ==
    \E g \in Goroutines :
        /\ At(g, "load")
        /\ LET h == goroutines[g].id
           IN  goroutines' =
                  [goroutines EXCEPT
                      ![g].pc = "value",
                      ![g].v = IF h \in DOMAIN stringCache THEN stringCache[h] ELSE 0]
        /\ UNCHANGED <<stringCache, textBufferPool, buffers, stringRefs>>
        /\ UNCHANGED callVars

\* if ref := v.(weak.Pointer[stringRef]).Value(); ref != nil { return ref.s }
StringValue ==
    \E g \in Goroutines :
        /\ At(g, "value")
        /\ LET v == goroutines[g].v
           IN  IF v # 0 /\ stringRefs[v].live
               THEN goroutines' =
                      [goroutines EXCEPT
                          ![g].pc = "done", ![g].v = 0,
                          ![g].s = stringRefs[v].s, ![g].hit = TRUE]
               ELSE goroutines' = [goroutines EXCEPT ![g].pc = "get", ![g].v = 0]
        /\ UNCHANGED <<stringCache, textBufferPool, buffers, stringRefs>>
        /\ UNCHANGED callVars

\* a pool that keeps the buffer it hands out
PoolKeep(pool, b) == pool

\* the pool after Get handed out buffer b
PoolTake(pool, b) == pool \ {b}

\* bufPtr := textBufferPool.Get().(*[]byte): a buffer of the pool, or a new
\* one from New
StringGet ==
    \E g \in Goroutines :
        /\ At(g, "get")
        /\ \/ \E b \in textBufferPool :
                /\ goroutines' =
                      [goroutines EXCEPT ![g].pc = "marshalTime", ![g].buf = b]
                /\ textBufferPool' = PoolTake(textBufferPool, b)
                /\ UNCHANGED buffers
           \/ /\ buffers' = Append(buffers, MakeBytes(EncodedSize))
              /\ goroutines' =
                    [goroutines EXCEPT
                        ![g].pc = "marshalTime", ![g].buf = Len(buffers) + 1]
              /\ UNCHANGED textBufferPool
        /\ UNCHANGED <<stringCache, stringRefs>>
        /\ UNCHANGED callVars

\* buf after MarshalTextTo has written the characters lo to hi - 1 of u
Written(u, buf, lo, hi) ==
    LET text == MarshalTextTo(u, buf).dst
    IN  [i \in DOMAIN buf |-> IF i >= lo /\ i < hi THEN text[i] ELSE buf[i]]

\* _ = id.MarshalTextTo(buf): dst[0] to dst[9]
StringMarshalTime ==
    \E g \in Goroutines :
        /\ At(g, "marshalTime")
        /\ LET b == goroutines[g].buf
           IN  buffers' =
                  [buffers EXCEPT ![b] = Written(goroutines[g].id, @, 0, 10)]
        /\ Goto(g, "marshalEntropy")
        /\ UNCHANGED <<stringCache, textBufferPool, stringRefs>>
        /\ UNCHANGED callVars

\* _ = id.MarshalTextTo(buf): dst[10] to dst[25]
StringMarshalEntropy ==
    \E g \in Goroutines :
        /\ At(g, "marshalEntropy")
        /\ LET b == goroutines[g].buf
           IN  buffers' =
                  [buffers EXCEPT ![b] =
                      Written(goroutines[g].id, @, 10, EncodedSize)]
        /\ Goto(g, "copy")
        /\ UNCHANGED <<stringCache, textBufferPool, stringRefs>>
        /\ UNCHANGED callVars

\* s := string(buf), a copy of the bytes; textBufferPool.Put(bufPtr)
StringCopyPut ==
    \E g \in Goroutines :
        /\ At(g, "copy")
        /\ textBufferPool' = textBufferPool \cup {goroutines[g].buf}
        /\ goroutines' =
              [goroutines EXCEPT
                  ![g].pc = "store", ![g].buf = 0,
                  ![g].s = buffers[goroutines[g].buf]]
        /\ UNCHANGED <<stringCache, buffers, stringRefs>>
        /\ UNCHANGED callVars

\* ref := &stringRef{s: s}; stringCache.Store(h, weak.Make(ref)); return s
StringStore ==
    \E g \in Goroutines :
        /\ At(g, "store")
        /\ stringRefs' = Append(stringRefs, [s |-> goroutines[g].s, live |-> TRUE])
        /\ LET h == goroutines[g].id
           IN  stringCache' =
                  [k \in DOMAIN stringCache \cup {h} |->
                      IF k = h THEN Len(stringRefs) + 1 ELSE stringCache[k]]
        /\ Goto(g, "done")
        /\ UNCHANGED <<textBufferPool, buffers>>
        /\ UNCHANGED callVars

\* the garbage collector frees a stringRef and clears the weak pointers to it
CollectGarbage ==
    \E r \in DOMAIN stringRefs :
        /\ stringRefs[r].live
        /\ stringRefs' = [stringRefs EXCEPT ![r].live = FALSE]
        /\ UNCHANGED <<stringCache, textBufferPool, buffers, goroutines>>
        /\ UNCHANGED callVars

NextString ==
    \/ StringLoad
    \/ StringValue
    \/ StringGet
    \/ StringMarshalTime
    \/ StringMarshalEntropy
    \/ StringCopyPut
    \/ StringStore
    \/ CollectGarbage

SpecString == InitString /\ [][NextString]_vars

(***************************************************************************)
(* Notions the properties are stated in.                                   *)
(***************************************************************************)
\* the order of two Go strings or byte slices: -1, 0 or 1
RECURSIVE StringCompareFrom(_, _, _)
StringCompareFrom(s, u, i) ==
    IF i >= len(s) /\ i >= len(u) THEN 0
    ELSE IF i >= len(s) THEN -1
    ELSE IF i >= len(u) THEN 1
    ELSE IF s[i] < u[i] THEN -1
    ELSE IF s[i] > u[i] THEN 1
    ELSE StringCompareFrom(s, u, i + 1)

StringCompare(s, u) == StringCompareFrom(s, u, 0)

\* the order of (t1, e1) and (t2, e2) as the numbers t * 2^80 + e
PairCompare(t1, e1, t2, e2) ==
    IF U64Less(t1, t2) THEN -1
    ELSE IF U64Less(t2, t1) THEN 1
    ELSE StringCompare(e1, e2)

\* "0123456789ABCDEFGHJKMNPQRSTVWXYZ" and its lower case
Alphabet ==
    (48..57) \cup ((65..90) \ {73, 76, 79, 85}) \cup ((97..122) \ {105, 108, 111, 117})

\* the characters '0'..'7'
UpToSeven == 48..55

IsText26(v) == len(v) = EncodedSize

\* v with its lower-case letters made upper case
UpperCased(v) == [i \in DOMAIN v |-> IF v[i] \in 97..122 THEN v[i] - 32 ELSE v[i]]

\* 26 alphabet symbols in either case, the first at most '7'
IsEncoding(v) ==
    /\ IsText26(v)
    /\ \A i \in DOMAIN v : v[i] \in Alphabet
    /\ v[0] \in UpToSeven

(***************************************************************************)
(* C1.  For all ULIDs a and b, a.Compare(b) equals the byte-wise order of  *)
(* a.String() and b.String() and the order of (a.Time(), a.Entropy()) and  *)
(* (b.Time(), b.Entropy()) as 128-bit numbers; an earlier time makes a     *)
(* smaller under Compare and as text, whatever the entropy.                *)
(***************************************************************************)
OrderAgrees ==
    call.name = "Compare" =>
        LET a == call.recv
            b == arg.v
            sa == String(a, stringCache).s
            sb == String(b, stringCache).s
        IN  /\ ret.val \in {-1, 0, 1}
            /\ ret.val = StringCompare(sa, sb)
            /\ ret.val = PairCompare(Time(a), Entropy(a), Time(b), Entropy(b))
            /\ U64Less(Time(a), Time(b)) =>
                  ret.val = -1 /\ StringCompare(sa, sb) = -1

\* a is earlier than b and has the larger entropy
OrderAgreesWitness ==
    /\ call.name = "Compare"
    /\ U64Less(Time(call.recv), Time(arg.v))
    /\ StringCompare(Entropy(call.recv), Entropy(arg.v)) = 1
    /\ ret.val = -1

(***************************************************************************)
(* C2.  Encoding never fails and decoding gives the ULID back: the text    *)
(* String() returns is 26 alphabet characters, the first at most '7', and  *)
(* Parse and ParseStrict return the ULID from it with no error; and        *)
(* UnmarshalBinary of MarshalBinary's bytes gives the ULID with no error.  *)
(***************************************************************************)
RoundTrip ==
    /\ call.name = "String" =>
          /\ IsText26(ret.val)
          /\ \A i \in DOMAIN ret.val : ret.val[i] \in Alphabet
          /\ ret.val[0] \in UpToSeven
          /\ Parse(ret.val) = [id |-> call.recv, err |-> "nil"]
          /\ ParseStrict(ret.val) = [id |-> call.recv, err |-> "nil"]
    /\ call.name = "MarshalText" => ret.err = "nil"
    /\ call.name = "MarshalBinary" =>
          /\ ret.err = "nil"
          /\ UnmarshalBinary(ZeroULID, ret.val) = [id |-> call.recv, err |-> "nil"]
          /\ UnmarshalBinary(Ramp(RawSize, 0), ret.val)
                = [id |-> call.recv, err |-> "nil"]

\* a ULID with the top bits of its time set and mixed bits after was encoded
RoundTripWitness ==
    /\ call.name = "String"
    /\ call.recv[0] = 255
    /\ call.recv[5] = 1
    /\ ret.val[0] = 55

(***************************************************************************)
(* C6.  A 26-character input whose first ten characters are alphabet       *)
(* symbols, the first at most '7', and which has a character outside the   *)
(* alphabet among its last sixteen: ParseStrict fails with                 *)
(* ErrInvalidCharacters and Parse succeeds.  A 26-character input with a   *)
(* character outside the alphabet among its first ten: both fail with      *)
(* ErrInvalidCharacters.                                                   *)
(***************************************************************************)
BadEntropyChar(v) ==
    /\ IsText26(v)
    /\ v[0] \in UpToSeven
    /\ \A i \in 0..9 : v[i] \in Alphabet
    /\ \E i \in 10..25 : v[i] \notin Alphabet

BadTimeChar(v) == IsText26(v) /\ \E i \in 0..9 : v[i] \notin Alphabet

OverflowFirst(v) == IsText26(v) /\ v[0] \in Alphabet \ UpToSeven

LengthChecked ==
    /\ call.name \in {"Parse", "ParseStrict", "UnmarshalText"}
         /\ len(arg.v) # EncodedSize => ret.err = "ErrDataSize"
    /\ call.name = "UnmarshalBinary" /\ len(arg.v) # RawSize =>
         ret.err = "ErrDataSize"

\* an input one too long whose first character is outside the alphabet
LengthCheckedWitness ==
    /\ call.name = "ParseStrict"
    /\ len(arg.v) = EncodedSize + 1
    /\ arg.v[0] \notin Alphabet
    /\ ret.err = "ErrDataSize"

(***************************************************************************)
(* C9.  What New(ms, src) is to do with a source that ends early.          *)
(***************************************************************************)
TooBig(ms) == U64Less(MaxTime, ms)

\* the bytes the source has to give before the call
Available == len(call.src.data)

NewTimeAndEntropy ==
    call.name = "New" =>
        /\ TooBig(arg.v) => ret.err = "ErrBigTime" /\ ret.val = ZeroULID
        /\ ~TooBig(arg.v) /\ Available >= EntropySize =>
              /\ ret.err = "nil"
              /\ Time(ret.val) = arg.v
              /\ Entropy(ret.val) = Slice(call.src.data, 0, EntropySize)
              /\ len(src.data) = Available - EntropySize

(***************************************************************************)
(* C9, as stated.  New(ms, src) fails with ErrBigTime if ms > MaxTime;     *)
(* otherwise it reads exactly 10 bytes from src and returns a ULID with    *)
(* that time and those bytes as entropy; if the read from src fails it     *)
(* returns the source's error and the zero ULID.                           *)
(***************************************************************************)
NewReturnsSourceError ==
    /\ NewTimeAndEntropy
    /\ call.name = "New" /\ ~TooBig(arg.v) /\ Available < EntropySize =>
          ret.err = call.src.fail /\ ret.val = ZeroULID

(***************************************************************************)
(* C9, amended.  As stated, but if the read from src fails New returns the *)
(* zero ULID and the source's error, except that when the source ends with *)
(* io.EOF after giving 1 to 9 bytes, the error is io.ErrUnexpectedEOF.     *)
(***************************************************************************)
NewReturnsReadFullError ==
    /\ NewTimeAndEntropy
    /\ call.name = "New" /\ ~TooBig(arg.v) /\ Available < EntropySize =>
          /\ ret.val = ZeroULID
          /\ ret.err = IF entropy = "stream" /\ Available > 0
                          /\ call.src.fail = "EOF"
                       THEN "ErrUnexpectedEOF" ELSE call.src.fail

\* a ULID was made from a caller's stream read in several pieces
NewReturnsReadFullErrorWitness ==
    /\ call.name = "New"
    /\ entropy = "stream"
    /\ call.src.chunk < EntropySize
    /\ ret.err = "nil"
    /\ arg.v = MaxTime
    /\ Time(ret.val) = MaxTime

(***************************************************************************)
(* C10.  For every ULID and every ms > MaxTime, SetTime(ms) fails with     *)
(* ErrBigTime and leaves the ULID as it was.                               *)
(***************************************************************************)
SetTimeTooBig ==
    call.name = "SetTime" /\ TooBig(arg.v) =>
        ret.err = "ErrBigTime" /\ id = call.recv

\* SetTime(2^48) on a ULID that is not zero
SetTimeTooBigWitness ==
    /\ call.name = "SetTime"
    /\ arg.v = U64Inc(MaxTime)
    /\ call.recv # ZeroULID
    /\ ret.err = "ErrBigTime"

(***************************************************************************)
(* C3.  For a reader made once by MonotonicReader(ms, src), whatever ms    *)
(* and the seed, consecutive successful New(ms, reader) calls yield ULIDs  *)
(* whose entropy strictly increases from one call to the next, hence       *)
(* ULIDs that strictly increase under Compare and Less.                    *)
(***************************************************************************)
MonotonicNew ==
    \A k \in 1..(Len(issued) - 1) :
        /\ StringCompare(Entropy(issued[k]), Entropy(issued[k + 1])) = -1
        /\ Less(issued[k], issued[k + 1])

(***************************************************************************)
(* C4.  Whatever the seed, when the reader's counter holds 2^64 - 1 the    *)
(* next Read of 10 bytes fails with ErrMonotonicOverflow and writes no     *)
(* entropy.                                                                *)
(***************************************************************************)
OverflowAtMax ==
    call.name = "Read" /\ len(arg.v) = EntropySize /\ call.m.inc = U64Max =>
        /\ ret.err = "ErrMonotonicOverflow"
        /\ ret.val.n = 0
        /\ ret.val.p = arg.v

(***************************************************************************)
(* C5.  A Read that fails with ErrMonotonicOverflow leaves the reader as   *)
(* it was: counter, seed and timestamp marker keep their values.           *)
(***************************************************************************)
FailedReadKeepsState ==
    call.name = "Read" /\ ret.err = "ErrMonotonicOverflow" => m = call.m

(***************************************************************************)
(* C11.  For every 26-character text of alphabet symbols in upper or lower *)
(* case whose first character is at most '7', Parse and ParseStrict        *)
(* succeed and return the ULID they return for the text in upper case,     *)
(* and String() of that ULID is the text in upper case.                    *)
(***************************************************************************)
CaseInsensitive ==
    call.name \in {"Parse", "ParseStrict"} /\ IsEncoding(arg.v) =>
        /\ ret.err = "nil"
        /\ Parse(UpperCased(arg.v)) = [id |-> ret.val, err |-> "nil"]
        /\ ParseStrict(UpperCased(arg.v)) = [id |-> ret.val, err |-> "nil"]
        /\ String(ret.val, stringCache).s = UpperCased(arg.v)

\* a text with letters in both cases, in its time and its entropy, decoded
CaseInsensitiveWitness ==
    /\ call.name = "ParseStrict"
    /\ IsEncoding(arg.v)
    /\ \E i \in 0..9 : arg.v[i] \in 97..122
    /\ \E i \in 10..25 : arg.v[i] \in 97..122
    /\ \E i \in DOMAIN arg.v : arg.v[i] \in 65..90
    /\ ret.err = "nil"
    /\ ret.val # ZeroULID

(***************************************************************************)
(* C12.  MarshalJSON gives 28 bytes: a double quote, the 26 characters of  *)
(* the text form, a double quote.  UnmarshalJSON fails with ErrDataSize on *)
(* every input that is not 28 bytes with a double quote first and last,    *)
(* and on the others does what UnmarshalText does on bytes 1..26; so       *)
(* UnmarshalJSON of MarshalJSON's bytes gives the ULID back.               *)
(***************************************************************************)
InQuotes(d) == len(d) = JSONSize /\ d[0] = Quote /\ d[JSONSize - 1] = Quote

JSONForm ==
    /\ call.name = "MarshalJSON" =>
          /\ ret.err = "nil"
          /\ len(ret.val) = 28
          /\ ret.val = Quoted(MarshalText(call.recv).data)
          /\ \A x \in FewIDs :
                UnmarshalJSON(x, ret.val) = [id |-> call.recv, err |-> "nil"]
    /\ call.name = "UnmarshalJSON" /\ ~InQuotes(arg.v) => ret.err = "ErrDataSize"
    /\ call.name = "UnmarshalJSON" /\ InQuotes(arg.v) =>
          LET text == Slice(arg.v, 1, 27)
          IN  /\ [id |-> id, err |-> ret.err] = UnmarshalText(call.recv, text)
              /\ ret.err = Parse(text).err
              /\ ret.err = "nil" => id = Parse(text).id

\* a quoted text in mixed case was decoded into a receiver that held
\* another ULID
JSONFormWitness ==
    /\ call.name = "UnmarshalJSON"
    /\ InQuotes(arg.v)
    /\ \E i \in 1..26 : arg.v[i] \in 97..122
    /\ ret.err = "nil"
    /\ id # call.recv
    /\ call.recv # ZeroULID

(***************************************************************************)
(* C13.  Scan of a string or a byte slice gives the result and the error   *)
(* of the permissive text decoder on that text; Scan of nil returns no     *)
(* error and leaves the ULID as it was; Scan of a value of another type    *)
(* returns ErrScanValue.  Value() returns the 26-character text form, and  *)
(* Scan of it gives the ULID back.                                         *)
(***************************************************************************)
ScanAndValue ==
    /\ call.name = "Scan" /\ arg.v.type \in {"string", "[]byte"} =>
          /\ [id |-> id, err |-> ret.err] = UnmarshalText(call.recv, arg.v.v)
          /\ ret.err = Parse(arg.v.v).err
          /\ ret.err = "nil" => id = Parse(arg.v.v).id
    /\ call.name = "Scan" /\ arg.v.type = "nil" =>
          ret.err = "nil" /\ id = call.recv
    /\ call.name = "Scan" /\ arg.v.type \notin {"nil", "string", "[]byte"} =>
          ret.err = "ErrScanValue"
    /\ call.name = "Value" =>
          /\ ret.err = "nil"
          /\ ret.val = [type |-> "string", v |-> MarshalText(call.recv).data]
          /\ len(ret.val.v) = 26
          /\ \A x \in FewIDs : Scan(x, ret.val) = [id |-> call.recv, err |-> "nil"]

\* a byte slice was scanned into a receiver that held another ULID
ScanAndValueWitness ==
    /\ call.name = "Scan"
    /\ arg.v.type = "[]byte"
    /\ ret.err = "nil"
    /\ id # call.recv
    /\ call.recv # ZeroULID

(***************************************************************************)
(* C14.  Compare is a total order on ULIDs with results -1, 0 and 1: for   *)
(* all a, b and c, Compare(a, b) = -Compare(b, a); Compare(a, b) = 0       *)
(* exactly when a.Equal(b), which is when all 16 bytes are equal; a before *)
(* b and b before c make a before c; and exactly one of a.Less(b),         *)
(* a.Equal(b) and a.Greater(b) is true.                                    *)
(***************************************************************************)
TotalOrder ==
    call.name = "Compare" =>
        LET a == call.recv
            b == arg.v
        IN  /\ ret.val \in {-1, 0, 1}
            /\ ret.val = 0 - Compare(b, a)
            /\ ret.val = 0 <=> Equal(a, b)
            /\ Equal(a, b) <=> \A i \in 0..15 : a[i] = b[i]
            /\ \A c \in IDs :
                  ret.val < 0 /\ Compare(b, c) < 0 => Compare(a, c) < 0
            /\ \/ Less(a, b) /\ ~Equal(a, b) /\ ~Greater(a, b)
               \/ ~Less(a, b) /\ Equal(a, b) /\ ~Greater(a, b)
               \/ ~Less(a, b) /\ ~Equal(a, b) /\ Greater(a, b)

\* a and b differ in their last byte only, and a third ULID lies after both
TotalOrderWitness ==
    /\ call.name = "Compare"
    /\ \A i \in 0..14 : call.recv[i] = arg.v[i]
    /\ ret.val = -1
    /\ \E c \in IDs : Compare(arg.v, c) < 0

(***************************************************************************)
(* C15.  For a ULID read as a 128-bit integer, most significant byte       *)
(* first, LeadingZeros() is the number of zero bits above its highest set  *)
(* bit and TrailingZeros() the number of zero bits below its lowest set    *)
(* bit; both are in 0..128, and both are 128 exactly for the all-zero      *)
(* ULID, the one for which IsZero() and IsNil() are true.                  *)
(***************************************************************************)
\* bit k of the 128-bit integer, bit 0 the least significant
BitOf(x, k) == Bit(x[15 - (k \div 8)], k % 8)

ZerosAbove(x) == Cardinality({k \in 0..127 : \A j \in k..127 : BitOf(x, j) = 0})

ZerosBelow(x) == Cardinality({k \in 0..127 : \A j \in 0..k : BitOf(x, j) = 0})

ZeroBitCounts ==
    /\ call.name = "LeadingZeros" =>
          /\ ret.val = ZerosAbove(call.recv)
          /\ ret.val \in 0..128
          /\ ret.val = 128 <=> call.recv = [i \in 0..15 |-> 0]
          /\ ret.val = 128 <=> IsZero(call.recv)
          /\ ret.val = 128 <=> IsNil(call.recv)
          /\ ret.val = 128 <=> TrailingZeros(call.recv) = 128
    /\ call.name = "TrailingZeros" =>
          /\ ret.val = ZerosBelow(call.recv)
          /\ ret.val \in 0..128
          /\ ret.val = 128 <=> call.recv = [i \in 0..15 |-> 0]
          /\ ret.val = 128 <=> IsZero(call.recv)
          /\ ret.val = 128 <=> IsNil(call.recv)

\* the highest set bit is neither the first nor the last bit of its byte,
\* and the byte is not the first one
ZeroBitCountsWitness ==
    /\ call.name = "LeadingZeros"
    /\ ret.val > 8
    /\ ret.val < 128
    /\ ret.val % 8 \notin {0, 7}

(***************************************************************************)
(* C16.  Each in-place mutator changes its own field only: after a         *)
(* successful SetTime(ms), Time() is ms and Entropy() is what it was       *)
(* before the call; after SetEntropy(e) with 10 bytes, which succeeds,     *)
(* Entropy() is e and Time() is what it was; SetEntropy with another       *)
(* length fails with ErrDataSize and changes nothing.                      *)
(***************************************************************************)
MutatorsKeepOtherField ==
    /\ call.name = "SetTime" /\ ret.err = "nil" =>
          /\ Time(id) = arg.v
          /\ Entropy(id) = Entropy(call.recv)
    /\ call.name = "SetEntropy" /\ len(arg.v) = 10 =>
          /\ ret.err = "nil"
          /\ Entropy(id) = arg.v
          /\ Time(id) = Time(call.recv)
    /\ call.name = "SetEntropy" /\ len(arg.v) # 10 =>
          /\ ret.err = "ErrDataSize"
          /\ id = call.recv

(***************************************************************************)
(* C17.  For every reader MonotonicReader returns, whatever the timestamp  *)
(* and the seed, every Read after the first takes the increment branch:    *)
(* the counter becomes the counter before plus one, and the underlying     *)
(* source is not read again.                                               *)
(***************************************************************************)
LaterReadsIncrement ==
    [][call.name = "Read" /\ len(arg.v) = EntropySize
       /\ call'.name = "Read" /\ len(arg'.v) = EntropySize =>
          /\ m'.inc = U64Inc(m.inc)
          /\ src' = src]_vars

(***************************************************************************)
(* C18.  A successful Read of the monotonic reader writes all 10 bytes of  *)
(* its buffer from the counter alone: a reader in the same state, reading  *)
(* into a 10-byte buffer that held other bytes before, returns the same 10 *)
(* bytes.                                                                  *)
(***************************************************************************)
ReadIgnoresBuffer ==
    call.name = "Read" /\ ret.err = "nil" =>
        \A q \in ReadBufs :
            len(q) = 10 =>
                LET other == monoRead(call.m, call.src, q)
                IN  /\ other.err = "nil"
                    /\ other.m = m
                    /\ other.p = ret.val.p

(***************************************************************************)
(* C20.  A decode that returns an error leaves the receiver as it was:     *)
(* whatever the ULID held and whatever the input, after UnmarshalText,     *)
(* UnmarshalBinary, UnmarshalJSON or Scan returns an error the 16 bytes of *)
(* the receiver are the bytes from before the call.                        *)
(***************************************************************************)
Decoders == {"UnmarshalText", "UnmarshalBinary", "UnmarshalJSON", "Scan"}

FailedDecodeKeepsReceiver ==
    call.name \in Decoders /\ ret.err # "nil" =>
        \A i \in 0..15 : id[i] = call.recv[i]

\* a quoted text whose first character is too big was refused, and the
\* receiver held a ULID other than the zero one
FailedDecodeKeepsReceiverWitness ==
    /\ call.name = "UnmarshalJSON"
    /\ ret.err = "ErrOverflow"
    /\ call.recv # ZeroULID
    /\ id = call.recv

(***************************************************************************)
(* C19.  The string cache has no effect on what String() returns: under    *)
(* every interleaving of concurrent String() calls, on equal ULIDs or on   *)
(* different ones, and of the garbage collector clearing the cache's weak  *)
(* entries, every call returns the 26 characters MarshalText gives for its *)
(* own ULID, never the text of another ULID and never a buffer that is     *)
(* written in part.                                                        *)
(***************************************************************************)
StringUnaffected ==
    \A g \in DOMAIN goroutines :
        goroutines[g].pc = "done" =>
            /\ len(goroutines[g].s) = 26
            /\ goroutines[g].s = MarshalText(goroutines[g].id).data

\* all calls have returned: one goroutine wrote the text of the second
\* ULID into the one buffer there is, which held the text of the first, and
\* stored it; another has its string from that cache entry; and the garbage
\* collector has cleared an entry
StringUnaffectedWitness ==
    /\ \A g \in DOMAIN goroutines : goroutines[g].pc = "done"
    /\ \E g, o \in DOMAIN goroutines :
          /\ goroutines[g].hit
          /\ goroutines[g].id = Ramp(RawSize, 1)
          /\ ~goroutines[o].hit
          /\ goroutines[o].id = Ramp(RawSize, 1)
    /\ Len(buffers) = 1
    /\ buffers[1] = MarshalText(Ramp(RawSize, 1)).data
    /\ stringCache # EmptyCache
    /\ \E r \in DOMAIN stringRefs : ~stringRefs[r].live
====
